---- MODULE Spec2Model ----
(***************************************************************************)
(* arrow::util::EqualityComparable<T> (cpp/src/arrow/util/compare.h).      *)
(*                                                                         *)
(* The CRTP base derives operator==, operator!=, a shared_ptr-taking       *)
(* Equals and the functor PtrsEqual from the one method the adopting type  *)
(* T supplies, T::Equals.  T::Equals is the environment of the class: it   *)
(* is drawn at Init and never changes (a pure method).  The state holds    *)
(* the objects of type T, the shared_ptr handles to them, and the record   *)
(* of the last call made on the class: which operation, its arguments,     *)
(* and what it did (value returned, invocations of T::Equals, pointers     *)
(* dereferenced, whether it ran into undefined behaviour).                 *)
(***************************************************************************)
EXTENDS Naturals, Sequences, FiniteSets

\* Number of live objects of type T.
NumObjs == 2

\* The values an object of type T can hold.
Values == {"v1", "v2"}

\* Objects of type T, named by their address.
Addrs == 1..NumObjs

\* The null shared_ptr (NULLPTR).
NULL == 0

\* shared_ptr<T> handles: handle 0 is empty, handle h > 0 owns object h.
Handles == 0..NumObjs

\* The packs Extra&&... a caller passes: none, and the same two arguments
\* in both orders.
ExtraLists == {<<>>, <<1, 2>>, <<2, 1>>}

\* The argument tuples of T::Equals: receiver value, argument value, extras.
EqualsArgs == Values \X Values \X ExtraLists

\* The implementations of T::Equals the adopting type may supply: any
\* relation R on values for the call without extras (symmetric or not,
\* reflexive or not), and for each non-empty pack of extras either the
\* same answer as R or the opposite one.
EqualsImpls ==
    { [t \in EqualsArgs |-> (R[t[1], t[2]] = S[t[3]])] :
        R \in [Values \X Values -> BOOLEAN],
        S \in {s \in [ExtraLists -> BOOLEAN] : s[<<>>]} }

VARIABLES
    TEquals,   \* the method T::Equals of the adopting type
    obj,       \* obj[a]: the value of the object at address a
    sp,        \* sp[h]: the address handle h points to, or NULL
    call,      \* the last call: [op, args]
    res        \* what the last call did

vars == <<TEquals, obj, sp, call, res>>

\* The marker for "no value was returned".
NoRet == "none"

\* The outcome of a call that returned normally.
Returned(r, invoked, deref) ==
    [status |-> "returned", ret |-> r, ub |-> FALSE,
     calls |-> invoked, derefs |-> deref]

\* What a build may do once a null shared_ptr has been dereferenced:
\* crash, or carry on and return either boolean.
UndefinedOutcomes(deref) ==
    {[status |-> "crashed", ret |-> NoRet, ub |-> TRUE,
      calls |-> <<>>, derefs |-> deref]}
    \cup
    {[status |-> "returned", ret |-> b, ub |-> TRUE,
      calls |-> <<>>, derefs |-> deref] : b \in BOOLEAN}

\* One invocation of T::Equals on the objects at a and b with extras ex:
\* the value it returns.
InvokeEquals(a, b, ex) == TEquals[<<obj[a], obj[b], ex>>]

\* const T& cast() const: the receiver seen as its derived type.
cast(a) == a


\* One entry of the log of T::Equals invocations: receiver, argument, extras.
Invocation(a, b, ex) == <<a, b, ex>>

\* A variant of operator== that makes the right operand the receiver.
OperatorEqSwapped(a, b) ==
    Returned(InvokeEquals(b, a, <<>>), <<Invocation(b, a, <<>>)>>, {})

\* A variant of operator== that accepts a match in either direction.
OperatorEqSymmetrized(a, b) ==
    Returned(InvokeEquals(a, b, <<>>) \/ InvokeEquals(b, a, <<>>),
             <<Invocation(a, b, <<>>), Invocation(b, a, <<>>)>>, {})

\* friend bool operator==(T const& a, T const& b) { return a.Equals(b); }
OperatorEq(a, b) ==
    Returned(InvokeEquals(a, b, <<>>), <<Invocation(a, b, <<>>)>>, {})

\* A variant of operator!= written on its own, with the operands exchanged.
OperatorNeIndependent(a, b) ==
    Returned(~InvokeEquals(b, a, <<>>), <<Invocation(b, a, <<>>)>>, {})

\* friend bool operator!=(T const& a, T const& b) { return !(a == b); }
OperatorNe(a, b) ==
    LET e == OperatorEq(a, b)
    IN  [e EXCEPT !.ret = ~e.ret]

\* A variant of the shared_ptr-taking Equals that treats a null pointer as
\* equal to everything.
EqualsRefNullEqual(a, p, ex) ==
    IF p = NULL
    THEN Returned(TRUE, <<>>, {})
    ELSE Returned(InvokeEquals(cast(a), p, ex),
                  <<Invocation(cast(a), p, ex)>>, {p})

\* A variant of the shared_ptr-taking Equals that forwards no extras.
EqualsRefDropExtras(a, p, ex) ==
    IF p = NULL
    THEN Returned(FALSE, <<>>, {})
    ELSE Returned(InvokeEquals(cast(a), p, <<>>),
                  <<Invocation(cast(a), p, <<>>)>>, {p})

\* template <typename... Extra>
\* bool Equals(const std::shared_ptr<T>& other, Extra&&... extra) const
\* called on the object at a, with p the pointer other holds.
EqualsRef(a, p, ex) ==
    IF p = NULL
    THEN Returned(FALSE, <<>>, {})
    ELSE Returned(InvokeEquals(cast(a), p, ex),
                  <<Invocation(cast(a), p, ex)>>, {p})

\* A variant of PtrsEqual that compares the pointers themselves.
PtrsEqualIdentity(l, r) ==
    IF l = NULL \/ r = NULL
    THEN UndefinedOutcomes({l, r})
    ELSE {Returned(l = r, <<>>, {})}

\* A variant of PtrsEqual that makes the right pointer's object the receiver.
PtrsEqualSwapped(l, r) ==
    IF l = NULL \/ r = NULL
    THEN UndefinedOutcomes({l, r})
    ELSE {Returned(InvokeEquals(r, l, <<>>), <<Invocation(r, l, <<>>)>>, {l, r})}

\* A variant of PtrsEqual that checks for null first and then compares the
\* pointers, so that two null pointers are equal.
PtrsEqualNullSafe(l, r) ==
    IF l = NULL \/ r = NULL
    THEN {Returned(l = r, <<>>, {})}
    ELSE {Returned(InvokeEquals(l, r, <<>>), <<Invocation(l, r, <<>>)>>, {l, r})}

\* struct PtrsEqual { bool operator()(l, r) const { return l->Equals(*r); } }
\* with l and r the pointers the two handles hold: the set of outcomes.
\* Both pointers are dereferenced with no check; a null one is undefined
\* behaviour.
PtrsEqual(l, r) ==
    IF l = NULL \/ r = NULL
    THEN UndefinedOutcomes({l, r})
    ELSE {Returned(InvokeEquals(l, r, <<>>), <<Invocation(l, r, <<>>)>>, {l, r})}

\* The state after construction: some implementation of T::Equals, objects
\* holding any values, the handles as described, and no call made yet.
Init ==
    /\ TEquals \in EqualsImpls
    /\ obj \in [Addrs -> Values]
    /\ sp = [h \in Handles |-> IF h = 0 THEN NULL ELSE h]
    /\ call = [op |-> "none", args |-> <<>>, extra |-> <<>>]
    /\ res = [status |-> "idle", ret |-> NoRet, ub |-> FALSE,
              calls |-> <<>>, derefs |-> {}]

\* a == b on the objects at a and b.
CallOperatorEq(a, b) ==
    /\ call' = [op |-> "eq", args |-> <<a, b>>, extra |-> <<>>]
    /\ res' = OperatorEq(a, b)
    /\ UNCHANGED <<TEquals, obj, sp>>

\* a != b on the objects at a and b.
CallOperatorNe(a, b) ==
    /\ call' = [op |-> "ne", args |-> <<a, b>>, extra |-> <<>>]
    /\ res' = OperatorNe(a, b)
    /\ UNCHANGED <<TEquals, obj, sp>>

\* A variant of the call of Equals that takes the handle over and leaves it
\* empty.
CallEqualsRefReset(a, h, ex) ==
    /\ call' = [op |-> "equalsRef", args |-> <<a, h>>, extra |-> ex]
    /\ res' = EqualsRef(a, sp[h], ex)
    /\ sp' = [sp EXCEPT ![h] = NULL]
    /\ UNCHANGED <<TEquals, obj>>

\* a.Equals(other, extra...) on the object at a, other being handle h.
CallEqualsRef(a, h, ex) ==
    /\ call' = [op |-> "equalsRef", args |-> <<a, h>>, extra |-> ex]
    /\ res' = EqualsRef(a, sp[h], ex)
    /\ UNCHANGED <<TEquals, obj, sp>>

\* PtrsEqual()(l, r) on the handles hl and hr.
CallPtrsEqual(hl, hr) ==
    /\ call' = [op |-> "ptrsEqual", args |-> <<hl, hr>>, extra |-> <<>>]
    /\ res' \in PtrsEqual(sp[hl], sp[hr])
    /\ UNCHANGED <<TEquals, obj, sp>>

Next ==
    \/ \E a \in Addrs, b \in Addrs : CallOperatorEq(a, b)
    \/ \E a \in Addrs, b \in Addrs : CallOperatorNe(a, b)
    \/ \E a \in Addrs, h \in Handles, ex \in ExtraLists : CallEqualsRef(a, h, ex)
    \/ \E hl \in Handles, hr \in Handles : CallPtrsEqual(hl, hr)

Spec == Init /\ [][Next]_vars

\* The value T::Equals gives for the objects at a and b, with extras ex.
TE(a, b, ex) == TEquals[<<obj[a], obj[b], ex>>]

\* The arguments of the last call.
Arg1 == call.args[1]
Arg2 == call.args[2]

TypeOK ==
    /\ TEquals \in EqualsImpls
    /\ obj \in [Addrs -> Values]
    /\ sp \in [Handles -> Addrs \cup {NULL}]
    /\ call.op \in {"none", "eq", "ne", "equalsRef", "ptrsEqual"}
    /\ res.status \in {"idle", "returned", "crashed"}


\* The objects the last call compared: the two operands of == and !=, the
\* receiver and the pointer of the handle for Equals, the pointers of the
\* two handles for PtrsEqual (NULL for an empty handle).
Left ==
    IF call.op = "ptrsEqual" THEN sp[Arg1] ELSE Arg1
Right ==
    IF call.op \in {"equalsRef", "ptrsEqual"} THEN sp[Arg2] ELSE Arg2

\* The last call was made, and every shared_ptr it was given is present.
AllPresent ==
    /\ call.op # "none"
    /\ Left # NULL
    /\ Right # NULL

\* C1: operator==(a, b) returns exactly a.Equals(b): one invocation of
\* T::Equals, the left operand its receiver, the right operand its argument,
\* no extras.
C1_OperatorEqReturnsEquals ==
    call.op = "eq" =>
        res = Returned(TE(Arg1, Arg2, <<>>), <<<<Arg1, Arg2, <<>>>>>>, {})

\* C1 witness: a == b returned true although b.Equals(a) is false.
C1_Witness ==
    /\ call.op = "eq"
    /\ res.ret = TRUE
    /\ ~TE(Arg2, Arg1, <<>>)

\* C2: operator!=(a, b) is the negation of operator==(a, b), whatever
\* T::Equals is: after a != b the value returned is the opposite of what
\* a == b gives, and after a == b the opposite of what a != b gives.
C2_NeIsNegationOfEq ==
    /\ call.op = "ne" =>
          /\ res.status = "returned"
          /\ res.ret \in BOOLEAN
          /\ res.ret = ~OperatorEq(Arg1, Arg2).ret
    /\ call.op = "eq" =>
          /\ res.ret \in BOOLEAN
          /\ res.ret = ~OperatorNe(Arg1, Arg2).ret

\* C2 witness: a != b was called for a T::Equals that is neither reflexive
\* on a nor symmetric on (a, b).
C2_Witness ==
    /\ call.op = "ne"
    /\ ~TE(Arg1, Arg1, <<>>)
    /\ TE(Arg1, Arg2, <<>>) # TE(Arg2, Arg1, <<>>)

\* C3: Equals(other, extra...) with other absent returns false as an
\* ordinary result, whatever the receiver and the extras: nothing is
\* dereferenced and T::Equals is not invoked.
C3_AbsentRefIsFalse ==
    (call.op = "equalsRef" /\ sp[Arg2] = NULL) =>
        res = Returned(FALSE, <<>>, {})

\* C3 witness: Equals was called with an absent reference and extras that
\* would make the receiver equal to itself.
C3_Witness ==
    /\ call.op = "equalsRef"
    /\ sp[Arg2] = NULL
    /\ call.extra # <<>>
    /\ TE(Arg1, Arg1, call.extra)
    /\ res.ret = FALSE

\* C4: Equals(r, e1..en) with r present returns exactly
\* a.Equals(*r, e1..en): one invocation of T::Equals with the receiver, the
\* referenced object and the same extras in the same order.
C4_PresentRefDelegates ==
    (call.op = "equalsRef" /\ sp[Arg2] # NULL) =>
        res = Returned(TE(Arg1, sp[Arg2], call.extra),
                       <<<<Arg1, sp[Arg2], call.extra>>>>, {sp[Arg2]})

\* C4 witness: Equals was called with a present reference and two extras
\* for which T::Equals answers differently than with no extras and than
\* with the extras exchanged.
C4_Witness ==
    /\ call.op = "equalsRef"
    /\ sp[Arg2] # NULL
    /\ call.extra = <<1, 2>>
    /\ res.ret = TRUE
    /\ ~TE(Arg1, sp[Arg2], <<2, 1>>)
    /\ ~TE(Arg1, sp[Arg2], <<>>)

\* C5: PtrsEqual()(ref_a, ref_b) on two present references returns exactly
\* a.Equals(b): the referenced objects are compared, not the pointers.
C5_PtrsEqualComparesValues ==
    (call.op = "ptrsEqual" /\ sp[Arg1] # NULL /\ sp[Arg2] # NULL) =>
        res = Returned(TE(sp[Arg1], sp[Arg2], <<>>),
                       <<<<sp[Arg1], sp[Arg2], <<>>>>>>, {sp[Arg1], sp[Arg2]})

\* C5 witness: PtrsEqual returned true for two distinct objects holding the
\* same value.
C5_Witness ==
    /\ call.op = "ptrsEqual"
    /\ sp[Arg1] # NULL /\ sp[Arg2] # NULL
    /\ sp[Arg1] # sp[Arg2]
    /\ obj[sp[Arg1]] = obj[sp[Arg2]]
    /\ res.ret = TRUE

\* The verdict "equal" of the last call: what it returned, negated for !=.
Verdict == IF call.op = "ne" THEN ~res.ret ELSE res.ret

\* C6: the derived operations never diverge: whichever of them was called
\* last on objects a and b (present references, no extras), its verdict is
\* a.Equals(b), and so is that of each of the other three on the same
\* objects: a == b, !(a != b), a.Equals(ref_b), PtrsEqual()(ref_a, ref_b).
C6_DerivedOperationsAgree ==
    (AllPresent /\ call.extra = <<>>) =>
        /\ Verdict = TE(Left, Right, <<>>)
        /\ Verdict = OperatorEq(Left, Right).ret
        /\ Verdict = ~OperatorNe(Left, Right).ret
        /\ Verdict = EqualsRef(Left, Right, <<>>).ret
        /\ \A o \in PtrsEqual(Left, Right) : Verdict = o.ret

\* C6 witness: a != b returned false on two distinct objects.
C6_Witness ==
    /\ call.op = "ne"
    /\ Arg1 # Arg2
    /\ res.ret = FALSE


\* The last call was PtrsEqual with at least one absent reference.
PtrsEqualOnAbsent ==
    /\ call.op = "ptrsEqual"
    /\ (sp[Arg1] = NULL \/ sp[Arg2] = NULL)

\* C8 as stated: PtrsEqual makes no absence check, so with an absent
\* reference it dereferences a null pointer and has no defined result; and
\* two absent references are never reported equal.
C8_Original ==
    /\ PtrsEqualOnAbsent => (res.ub /\ NULL \in res.derefs)
    /\ (call.op = "ptrsEqual" /\ sp[Arg1] = NULL /\ sp[Arg2] = NULL) =>
          ~(res.status = "returned" /\ res.ret = TRUE)

\* C8 as amended: PtrsEqual makes no absence check, so with an absent
\* reference it dereferences a null pointer and its outcome is undefined;
\* no call gives "equal" as a defined result when a reference is absent
\* (the reference-taking Equals returns false, PtrsEqual returns nothing
\* defined).
C8_AbsentNeverDefinedEqual ==
    /\ PtrsEqualOnAbsent => (res.ub /\ NULL \in res.derefs)
    /\ (call.op \in {"equalsRef", "ptrsEqual"} /\ ~AllPresent /\ ~res.ub) =>
          (res.status = "returned" /\ res.ret = FALSE)

\* C8 witness: PtrsEqual was called on two absent references and the
\* undefined call came back with true.
C8_Witness ==
    /\ call.op = "ptrsEqual"
    /\ sp[Arg1] = NULL /\ sp[Arg2] = NULL
    /\ res.ub
    /\ res.status = "returned"
    /\ res.ret = TRUE

\* A call within the contract of its operation: PtrsEqual is given two
\* present references (the other operations have no precondition).
WithinContract(c) ==
    c.op = "ptrsEqual" => (sp[c.args[1]] # NULL /\ sp[c.args[2]] # NULL)

\* No call changes an object, a handle or T::Equals.
Frame ==
    /\ obj' = obj
    /\ sp' = sp
    /\ TEquals' = TEquals

\* C9 as stated: every operation completes, changes neither the values nor
\* the references, and repeated on the same inputs returns the same result.
C9_Original ==
    [][/\ Frame
       /\ res'.status = "returned"
       /\ (call' = call => res' = res)]_vars

\* C9 as amended: every operation called within its contract (PtrsEqual on
\* present references) completes with a boolean; no operation changes a
\* value, a reference or T::Equals; and a call within its contract repeated
\* on the same inputs returns the same result.
C9_PureWithinContract ==
    [][/\ Frame
       /\ WithinContract(call') =>
             (res'.status = "returned" /\ ~res'.ub /\ res'.ret \in BOOLEAN)
       /\ (call' = call /\ WithinContract(call)) => res' = res]_vars

\* C9 witness: Equals with extras was called on a present reference and
\* returned.
C9_Witness ==
    /\ call.op = "equalsRef"
    /\ sp[Arg2] # NULL
    /\ call.extra = <<2, 1>>
    /\ res.status = "returned"
    /\ sp = [h \in Handles |-> IF h = 0 THEN NULL ELSE h]

\* T::Equals agrees in both directions on the objects at a and b.
SymmetricOn(a, b) == TE(a, b, <<>>) = TE(b, a, <<>>)

\* C10: the capability neither adds nor removes symmetry.  The receiver of
\* the one T::Equals invocation is the left operand, so the result of the
\* last call on (a, b) equals the result of the same operation on (b, a)
\* exactly when T::Equals is symmetric on that pair; this for ==, != and,
\* on present references, PtrsEqual.
C10_SymmetryPreserved ==
    /\ call.op = "eq" =>
          /\ (res.ret = OperatorEq(Arg2, Arg1).ret) <=> SymmetricOn(Arg1, Arg2)
          /\ res.calls[1][1] = Arg1
    /\ call.op = "ne" =>
          /\ (res.ret = OperatorNe(Arg2, Arg1).ret) <=> SymmetricOn(Arg1, Arg2)
          /\ res.calls[1][1] = Arg1
    /\ (call.op = "ptrsEqual" /\ AllPresent) =>
          /\ \A o \in PtrsEqual(Right, Left) :
                (res.ret = o.ret) <=> SymmetricOn(Left, Right)
          /\ res.calls[1][1] = Left

\* C10 witness: a == b returned false although b.Equals(a) is true.
C10_Witness ==
    /\ call.op = "eq"
    /\ res.ret = FALSE
    /\ TE(Arg2, Arg1, <<>>)

====
